---- MODULE Spec2Model ----
(***************************************************************************)
(* Model of the Graph ADT of Project2_Refined.py (Reorganized_Project2.py  *)
(* holds the same class): add_vertex, add_edge and the DFS-based           *)
(* topological_sort.  The recursion of the nested dfs helper is modelled   *)
(* by an explicit stack of call frames, one step per statement group.      *)
(***************************************************************************)
EXTENDS Integers, Sequences, FiniteSets, TLC

\* The vertex identifiers the calls draw from (the names the test harness uses).
Vertices == {"A", "B", "C"}

\* Bound on the number of add_vertex / add_edge calls of one run.
MaxCalls == 3

VARIABLES
    adjacency_list,     \* the dict: [keys: insertion-ordered keys, succ: key -> list]
    pc,                 \* "idle": no call in flight; "loop": topological_sort runs;
                        \* "KeyError": a dict lookup of a missing key raised
    visit_state,        \* local dict of topological_sort: vertex -> 0 | 1 | 2
    topological_order,  \* local list of topological_sort
    is_dag,             \* local flag of topological_sort
    it,                 \* position of the for loop of line 77 in the key order
    stack,              \* active dfs frames, innermost last: [vertex, pos]
    history,            \* ghost: the add_vertex / add_edge calls made so far
    snapshot,           \* ghost: adjacency_list as it was when the running call began
    returned            \* ghost: {} or the one record of the last completed call

vars == <<adjacency_list, pc, visit_state, topological_order, is_dag, it, stack,
          history, snapshot, returned>>

Range(s) == {s[i] : i \in 1..Len(s)}

\* visit_state values (comment block of lines 44-47)
Unvisited == 0
Visiting == 1
Visited == 2

\* self.adjacency_list = {}
EmptyGraph == [keys |-> <<>>, succ |-> <<>>]

\* `vertex in self.adjacency_list`
Contains(adj, v) == v \in Range(adj.keys)

\* mutant: the `if vertex not in` guard is missing, the entry is overwritten
add_vertex_overwrite(adj, vertex) ==
    [keys |-> Append(adj.keys, vertex),
     succ |-> (vertex :> <<>>) @@ adj.succ]

add_vertex(adj, vertex) ==
    IF ~Contains(adj, vertex)
    THEN [keys |-> Append(adj.keys, vertex),
          succ |-> (vertex :> <<>>) @@ adj.succ]
    ELSE adj

\* mutant: the destination vertex is not registered (lines 32-33 missing)
add_edge_no_to(adj, from_vertex, to_vertex) ==
    LET a1 == IF ~Contains(adj, from_vertex) THEN add_vertex(adj, from_vertex) ELSE adj
    IN  [a1 EXCEPT !.succ[from_vertex] = Append(@, to_vertex)]

add_edge(adj, from_vertex, to_vertex) ==
    LET a1 == IF ~Contains(adj, from_vertex) THEN add_vertex(adj, from_vertex) ELSE adj
        a2 == IF ~Contains(a1, to_vertex) THEN add_vertex(a1, to_vertex) ELSE a1
    IN  [a2 EXCEPT !.succ[from_vertex] = Append(@, to_vertex)]

\* visit_state = {vertex: 0 for vertex in self.adjacency_list}
InitialVisitState(adj) == [v \in Range(adj.keys) |-> Unvisited]

\* mutant: the vertex is appended instead of inserted at the front
Insert0_append(order, vertex) == Append(order, vertex)

\* topological_order.insert(0, vertex)
Insert0(order, vertex) == <<vertex>> \o order

\* mutant: a finished vertex is taken for one on the recursion path
IsBackEdge_any_marked(state) == state # Unvisited

\* `if visit_state[vertex] == 1`: the vertex is on the current recursion path
IsBackEdge(state) == state = Visiting

\* mutant: the early return for a finished vertex is missing
IsFinished_never(state) == FALSE

\* `if visit_state[vertex] == 2`: the vertex was fully processed before
IsFinished(state) == state = Visited

\* mutant: the vertex is left in state Visiting when dfs finishes
MarkFinished_skipped(states, vertex) == states

\* visit_state[vertex] = 2
MarkFinished(states, vertex) == [states EXCEPT ![vertex] = Visited]

\* mutant: the accumulated list is returned whatever the flag says
ReturnValue_ignores_flag(dag, order) == order

\* `if not is_dag: return []` / `return topological_order`
ReturnValue(dag, order) == IF ~dag THEN <<>> ELSE order

Top == stack[Len(stack)]
Pop == SubSeq(stack, 1, Len(stack) - 1)
Frame(v, p) == [vertex |-> v, pos |-> p]

Init ==
    /\ adjacency_list = EmptyGraph
    /\ pc = "idle"
    /\ visit_state = <<>>
    /\ topological_order = <<>>
    /\ is_dag = TRUE
    /\ it = 1
    /\ stack = <<>>
    /\ history = <<>>
    /\ snapshot = EmptyGraph
    /\ returned = {}

locals == <<visit_state, topological_order, is_dag, it, stack>>

AddVertex(v) ==
    /\ pc = "idle"
    /\ Len(history) < MaxCalls
    /\ adjacency_list' = add_vertex(adjacency_list, v)
    /\ history' = Append(history, <<"add_vertex", v>>)
    /\ UNCHANGED <<pc, locals, snapshot, returned>>

AddEdge(u, v) ==
    /\ pc = "idle"
    /\ Len(history) < MaxCalls
    /\ adjacency_list' = add_edge(adjacency_list, u, v)
    /\ history' = Append(history, <<"add_edge", u, v>>)
    /\ UNCHANGED <<pc, locals, snapshot, returned>>

\* topological_sort, lines 48-50: the locals are created
Begin ==
    /\ pc = "idle"
    /\ pc' = "loop"
    /\ visit_state' = InitialVisitState(adjacency_list)
    /\ topological_order' = <<>>
    /\ is_dag' = TRUE
    /\ it' = 1
    /\ stack' = <<>>
    /\ snapshot' = adjacency_list
    /\ UNCHANGED <<adjacency_list, history, returned>>

\* lines 77-79: the next key of the dict; dfs is called on it when unvisited
OuterLoop ==
    /\ pc = "loop"
    /\ stack = <<>>
    /\ it <= Len(adjacency_list.keys)
    /\ it' = it + 1
    /\ stack' = IF visit_state[adjacency_list.keys[it]] = Unvisited
                THEN <<Frame(adjacency_list.keys[it], 0)>>
                ELSE stack
    /\ UNCHANGED <<adjacency_list, pc, visit_state, topological_order, is_dag,
                   history, snapshot, returned>>

\* lines 56-65: entry of dfs(vertex)
DfsEnter ==
    /\ pc = "loop"
    /\ stack # <<>>
    /\ Top.pos = 0
    /\ IF Top.vertex \notin DOMAIN visit_state
       THEN /\ pc' = "KeyError"
            /\ UNCHANGED <<visit_state, is_dag, stack>>
       ELSE IF IsBackEdge(visit_state[Top.vertex])
       THEN /\ is_dag' = FALSE
            /\ stack' = Pop
            /\ UNCHANGED <<pc, visit_state>>
       ELSE IF IsFinished(visit_state[Top.vertex])
       THEN /\ stack' = Pop
            /\ UNCHANGED <<pc, visit_state, is_dag>>
       ELSE /\ visit_state' = [visit_state EXCEPT ![Top.vertex] = Visiting]
            /\ stack' = [stack EXCEPT ![Len(stack)].pos = 1]
            /\ UNCHANGED <<pc, is_dag>>
    /\ UNCHANGED <<adjacency_list, topological_order, it, history, snapshot, returned>>

\* lines 68-69: the for loop of dfs calls dfs on the next neighbor
DfsNeighbor ==
    /\ pc = "loop"
    /\ stack # <<>>
    /\ Top.pos >= 1
    /\ Top.pos <= Len(adjacency_list.succ[Top.vertex])
    /\ stack' = Append([stack EXCEPT ![Len(stack)].pos = @ + 1],
                       Frame(adjacency_list.succ[Top.vertex][Top.pos], 0))
    /\ UNCHANGED <<adjacency_list, pc, visit_state, topological_order, is_dag, it,
                   history, snapshot, returned>>

\* mutant: dfs consumes the successor list of the vertex it finishes
DfsFinish_consuming ==
    /\ pc = "loop"
    /\ stack # <<>>
    /\ Top.pos >= 1
    /\ Top.pos > Len(adjacency_list.succ[Top.vertex])
    /\ visit_state' = MarkFinished(visit_state, Top.vertex)
    /\ topological_order' = Insert0(topological_order, Top.vertex)
    /\ stack' = Pop
    /\ adjacency_list' = [adjacency_list EXCEPT !.succ[Top.vertex] = <<>>]
    /\ UNCHANGED <<pc, is_dag, it, history, snapshot, returned>>

\* lines 71-74: the for loop is exhausted; the vertex is finished and emitted
DfsFinish ==
    /\ pc = "loop"
    /\ stack # <<>>
    /\ Top.pos >= 1
    /\ Top.pos > Len(adjacency_list.succ[Top.vertex])
    /\ visit_state' = MarkFinished(visit_state, Top.vertex)
    /\ topological_order' = Insert0(topological_order, Top.vertex)
    /\ stack' = Pop
    /\ UNCHANGED <<adjacency_list, pc, is_dag, it, history, snapshot, returned>>

\* lines 81-85: the outer loop is exhausted; the call returns and its locals die
Return ==
    /\ pc = "loop"
    /\ stack = <<>>
    /\ it > Len(adjacency_list.keys)
    /\ pc' = "idle"
    /\ returned' = {[value |-> ReturnValue(is_dag, topological_order),
                     is_dag |-> is_dag,
                     visit_state |-> visit_state,
                     order |-> topological_order,
                     graph |-> snapshot]}
    /\ visit_state' = <<>>
    /\ topological_order' = <<>>
    /\ is_dag' = TRUE
    /\ it' = 1
    /\ UNCHANGED <<adjacency_list, stack, history, snapshot>>

Next ==
    \/ \E v \in Vertices : AddVertex(v)
    \/ \E u, v \in Vertices : AddEdge(u, v)
    \/ Begin
    \/ OuterLoop
    \/ DfsEnter
    \/ DfsNeighbor
    \/ DfsFinish
    \/ Return

Spec == Init /\ [][Next]_vars

\* the body of topological_sort runs to completion once called (synchronous code)
Traverse == OuterLoop \/ DfsEnter \/ DfsNeighbor \/ DfsFinish \/ Return

FairSpec == Spec /\ WF_vars(Traverse)

(***************************************************************************)
(* Vocabulary of the properties, computed from the adjacency structure and *)
(* the call history alone, never from the traversal.                       *)
(***************************************************************************)
Keys(g) == Range(g.keys)

\* every stored edge (u, v); duplicate entries give the same pair
Edges(g) == UNION {{<<u, g.succ[u][i]>> : i \in 1..Len(g.succ[u])} : u \in Keys(g)}

Compose(R) ==
    {p \in Vertices \X Vertices :
        \E m \in Vertices : <<p[1], m>> \in R /\ <<m, p[2]>> \in R}

RECURSIVE Closure(_, _)
Closure(R, n) == IF n = 0 THEN R ELSE Closure(R \cup Compose(R), n - 1)

\* u reaches v along one or more edges
Reachable(g) == Closure(Edges(g), Cardinality(Vertices))

HasCycle(g) == \E v \in Vertices : <<v, v>> \in Reachable(g)

\* list.index(v), 0 when v does not occur
IndexOf(s, v) ==
    IF v \in Range(s) THEN CHOOSE i \in 1..Len(s) : s[i] = v /\ \A j \in 1..(i - 1) : s[j] # v
    ELSE 0

HasDuplicate(s) == \E i, j \in 1..Len(s) : i < j /\ s[i] = s[j]

\* the call that last returned ran on the graph as it is now
Current(r) == r.graph = adjacency_list

(***************************************************************************)
(* Properties.  `returned` holds the record of the last completed call:    *)
(* the value it returned, its flag, and the graph it ran on.               *)
(***************************************************************************)

\* C1 (validity): when a call returns with the flag is_dag still set, every
\* stored edge (u, v) of the graph, duplicates included, has u at a strictly
\* smaller index of the returned sequence than v.
C1_Validity ==
    \A r \in returned :
        r.is_dag =>
            \A e \in Edges(r.graph) :
                /\ IndexOf(r.value, e[1]) >= 1
                /\ IndexOf(r.value, e[1]) < IndexOf(r.value, e[2])

\* a successful call on a graph with a duplicate edge and a second edge
C1_Witness ==
    \E r \in returned :
        /\ r.is_dag
        /\ Cardinality(Edges(r.graph)) >= 2
        /\ \E u \in Keys(r.graph) : HasDuplicate(r.graph.succ[u])

\* C2 (completeness): a sequence returned with is_dag set holds every key of
\* the adjacency mapping exactly once and nothing else.
C2_Completeness ==
    \A r \in returned :
        r.is_dag =>
            /\ Range(r.value) = Keys(r.graph)
            /\ Len(r.value) = Cardinality(Keys(r.graph))

\* a successful call on three vertices, one of them reached along two paths
C2_Witness ==
    \E r \in returned :
        /\ r.is_dag
        /\ Len(r.graph.keys) = 3
        /\ \E v \in Vertices : Cardinality({e \in Edges(r.graph) : e[2] = v}) = 2

\* C3 (cycle detection): a call on a graph with a directed cycle clears the
\* flag and returns the empty list, never the accumulated vertices.
C3_CycleDetected ==
    \A r \in returned :
        HasCycle(r.graph) => ~r.is_dag /\ r.value = <<>>

\* a call on a graph whose cycle does not pass through the first key, with
\* the accumulator filled when the call returned
C3_Witness ==
    \E r \in returned :
        /\ HasCycle(r.graph)
        /\ r.order # <<>>
        /\ <<r.graph.keys[1], r.graph.keys[1]>> \notin Reachable(r.graph)

\* C4 (no other failure): a call on an acyclic graph with at least one vertex
\* leaves is_dag set and returns a non-empty sequence.
C4_AcyclicSucceeds ==
    \A r \in returned :
        (~HasCycle(r.graph) /\ r.graph.keys # <<>>) =>
            r.is_dag /\ r.value # <<>>

\* a call on an acyclic graph with three distinct edges: the last vertex is
\* reached along two paths and found finished the second time
C4_Witness ==
    \E r \in returned :
        /\ ~HasCycle(r.graph)
        /\ Cardinality(Edges(r.graph)) = 3

\* a step in which topological_sort returns
Returns == pc = "loop" /\ pc' = "idle"

\* C5 (distinct failure variant): the value returned by a call that detected
\* a cycle differs from the value returned by a call that did not; stated of
\* two consecutive calls, one of each kind.
C5_FailureDistinct ==
    [][\A r \in returned, q \in returned' :
          (Returns /\ r.is_dag # q.is_dag) => r.value # q.value]_vars

\* the test harness's second scenario: add_edge("A", "C"), add_edge("B", "C")
Scenario2 == <<(<<"add_edge", "A", "C">>), (<<"add_edge", "B", "C">>)>>

\* C6 as stated (tie-break): after add_edge(A, C), add_edge(B, C) on an empty
\* graph the call succeeds with C after both A and B, and A before B.
C6_AFirst ==
    \A r \in returned :
        (history = Scenario2 /\ Current(r)) =>
            /\ r.is_dag
            /\ IndexOf(r.value, "A") >= 1
            /\ IndexOf(r.value, "B") >= 1
            /\ IndexOf(r.value, "A") < IndexOf(r.value, "C")
            /\ IndexOf(r.value, "B") < IndexOf(r.value, "C")
            /\ IndexOf(r.value, "A") < IndexOf(r.value, "B")

\* C6 amended: in that scenario the call succeeds and returns [B, A, C]: C
\* after both A and B, and B, the root visited last, before A.
C6_BFirst ==
    \A r \in returned :
        (history = Scenario2 /\ Current(r)) =>
            r.is_dag /\ r.value = <<"B", "A", "C">>

\* the call of the scenario has returned
C6_Witness ==
    /\ history = Scenario2
    /\ pc = "idle"
    /\ \E r \in returned : Current(r) /\ Len(r.value) = 3

\* C7 (pure read): no step of a running call changes the adjacency mapping
\* (keys, their order, every successor list), and a call that returns on the
\* graph the previous call ran on returns what that call returned.
C7_PureRead ==
    [][/\ pc = "loop" => adjacency_list' = snapshot
       /\ \A r \in returned, q \in returned' :
             (Returns /\ q.graph = r.graph) =>
                 q.value = r.value /\ q.is_dag = r.is_dag]_vars

\* a second call on an unchanged graph with edges is about to return
C7_Witness ==
    /\ pc = "loop"
    /\ stack = <<>>
    /\ it > Len(adjacency_list.keys)
    /\ Cardinality(Edges(adjacency_list)) >= 2
    /\ \E r \in returned : Current(r)

\* C8 (endpoint invariant): every vertex in a successor list is a key, every
\* key has a successor list, and no lookup of topological_sort misses.
C8_EndpointsAreKeys ==
    /\ DOMAIN adjacency_list.succ = Keys(adjacency_list)
    /\ \A e \in Edges(adjacency_list) : e[2] \in Keys(adjacency_list)
    /\ pc # "KeyError"

\* a call has run over an edge whose destination add_edge registered itself
C8_Witness ==
    /\ \E r \in returned : Current(r)
    /\ history # <<>>
    /\ \E u, v \in Vertices :
          /\ u # v
          /\ history[Len(history)] = <<"add_edge", u, v>>
          /\ \A i \in 1..(Len(history) - 1) : v \notin Range(history[i])

\* the `to` arguments of the add_edge(u, .) calls of h, in call order
RECURSIVE ToArguments(_, _)
ToArguments(h, u) ==
    IF h = <<>> THEN <<>>
    ELSE LET call == h[Len(h)]
             rest == ToArguments(SubSeq(h, 1, Len(h) - 1), u)
         IN  IF call[1] = "add_edge" /\ call[2] = u THEN Append(rest, call[3]) ELSE rest

\* the vertex arguments of the calls of h, in order of mention
RECURSIVE Mentions(_)
Mentions(h) ==
    IF h = <<>> THEN <<>>
    ELSE Mentions(SubSeq(h, 1, Len(h) - 1)) \o SubSeq(h[Len(h)], 2, Len(h[Len(h)]))

\* s without the repetitions of an earlier element
RECURSIVE FirstMentions(_)
FirstMentions(s) ==
    IF s = <<>> THEN <<>>
    ELSE LET rest == FirstMentions(SubSeq(s, 1, Len(s) - 1))
         IN  IF s[Len(s)] \in Range(rest) THEN rest ELSE Append(rest, s[Len(s)])

\* C9 (adjacency records the history): the keys are the vertices in order of
\* first mention, and the successor list of each key u is the sequence of `to`
\* arguments of the add_edge(u, .) calls, duplicates kept; so add_vertex on a
\* present vertex changes nothing.
C9_RecordsHistory ==
    /\ adjacency_list.keys = FirstMentions(Mentions(history))
    /\ \A u \in Keys(adjacency_list) :
          adjacency_list.succ[u] = ToArguments(history, u)

\* a duplicate edge was stored and add_vertex was called on a present vertex
C9_Witness ==
    /\ \E u \in Keys(adjacency_list) : HasDuplicate(adjacency_list.succ[u])
    /\ history # <<>>
    /\ \E v \in Vertices : history[Len(history)] = <<"add_vertex", v>>

\* C10 (state machine and termination): while a call runs every marker stays
\* or moves one state forward (unvisited, in-progress, done), the call returns
\* with every vertex done, and every call that began returns.
C10_MarkersAndTermination ==
    /\ [][(pc = "loop" /\ pc' = "loop") =>
            \A v \in DOMAIN visit_state :
                visit_state'[v] - visit_state[v] \in {0, 1}]_vars
    /\ [][Returns => \A v \in Keys(adjacency_list) : visit_state[v] = 2]_vars
    /\ (pc = "loop" ~> pc = "idle")

\* a call on a cyclic graph with three vertices has returned, all of them done
C10_Witness ==
    \E r \in returned :
        /\ HasCycle(r.graph)
        /\ Len(r.graph.keys) = 3
        /\ \A v \in Keys(r.graph) : r.visit_state[v] = 2

====
